---------------------------- MODULE Spec2Model ----------------------------
(***************************************************************************)
(* Sketch recognition services of ai-service/app: the ensemble service      *)
(* (core/ensemble_recognition_service.py), the feature-fallback service     *)
(* (core/recognition.py), the module-level service of                       *)
(* services/recognition.py and the lazy singleton accessors.                *)
(*                                                                         *)
(* A confidence is a rational number num/den, kept as the two integer       *)
(* fields of a candidate; raw model scores and the hand-written tables are  *)
(* multiples of 0.01, so they are held as integers over One.                *)
(***************************************************************************)
EXTENDS Integers, Sequences, FiniteSets, TLC

\* ---------------------------------------------------------------- bounds
\* longest class_names list of a metadata file
MaxVocab == 2
\* most output units of a model backend
MaxOut == 2
\* number of distinct preprocessed tensors a request can carry
MaxTensor == 2

\* ------------------------------------------------------ program constants
\* the value 1.0 in units of 0.01 (the error candidate's confidence)
One == 100
\* candidates each ensemble backend contributes and the ensemble returns
EnsembleTopN == 10
\* percentage factor of recognize_sketch: round(confidence * 100, 2)
Percent == 100

None == "None"

\* ------------------------------------------------------------ sequences
RECURSIVE SeqSum(_)
SeqSum(s) == IF s = <<>> THEN 0 ELSE Head(s) + SeqSum(Tail(s))

Range(s) == {s[i] : i \in DOMAIN s}

Take(s, n) == SubSeq(s, 1, IF n < Len(s) THEN n ELSE Len(s))

Reverse(s) == [i \in 1..Len(s) |-> s[Len(s) + 1 - i]]

\* an insertion that puts the new entry in front of its equals
RECURSIVE InsertDescBeforeEqual(_, _)
InsertDescBeforeEqual(sorted, x) ==
    IF sorted = <<>> THEN <<x>>
    ELSE IF Head(sorted).num > x.num
         THEN <<Head(sorted)>> \o InsertDescBeforeEqual(Tail(sorted), x)
         ELSE <<x>> \o sorted

\* list.sort(key=confidence, reverse=True): stable, descending
RECURSIVE InsertDesc(_, _)
InsertDesc(sorted, x) ==
    IF sorted = <<>> THEN <<x>>
    ELSE IF Head(sorted).num >= x.num
         THEN <<Head(sorted)>> \o InsertDesc(Tail(sorted), x)
         ELSE <<x>> \o sorted

RECURSIVE SortDesc(_)
SortDesc(s) ==
    IF s = <<>> THEN <<>>
    ELSE InsertDesc(SortDesc(SubSeq(s, 1, Len(s) - 1)), s[Len(s)])

\* np.argsort(scores): indices by ascending score (insertion sort on the
\* short vectors used here, hence ties keep index order)
RECURSIVE InsertAsc(_, _, _)
InsertAsc(sorted, i, scores) ==
    IF sorted = <<>> THEN <<i>>
    ELSE IF scores[Head(sorted)] <= scores[i]
         THEN <<Head(sorted)>> \o InsertAsc(Tail(sorted), i, scores)
         ELSE <<i>> \o sorted

RECURSIVE ArgsortUpTo(_, _)
ArgsortUpTo(scores, n) ==
    IF n = 0 THEN <<>>
    ELSE InsertAsc(ArgsortUpTo(scores, n - 1), n, scores)

Argsort(scores) == ArgsortUpTo(scores, Len(scores))

\* np.argsort(scores)[::-1][:n]
TopIndicesDesc(scores, n) == Take(Reverse(Argsort(scores)), n)

\* ------------------------------------------------------------ vocabulary
Labels == {"apple", "car", "cat"}

IsInjective(s) == \A i, j \in DOMAIN s : s[i] = s[j] => i = j

\* class_names lists of a metadata file: distinct labels, at most MaxVocab
Vocabularies ==
    {v \in UNION {[1..n -> Labels] : n \in 1..MaxVocab} : IsInjective(v)}

ScoreValues == {0, 30, 70, 100}

\* softmax output vectors: non-negative scores that sum to 1.0
OutputVectors ==
    {o \in UNION {[1..n -> ScoreValues] : n \in 1..MaxOut} : SeqSum(o) = One}

Tensors == 1..MaxTensor

\* ---------------------------------------------------------------- state
VARIABLES
    ens_constructed,     \* EnsembleSketchRecognitionService() has run
    ens_models,          \* self.models: backend names in insertion order
    ens_metadata,        \* self.metadata: name -> class_names, or None
    ens_model_loaded,    \* self.model_loaded
    category_model_map,  \* self.category_model_map: label -> name, or None
    ens_request,         \* last recognize_sketch call: input and backends
    ens_response,        \* its return value
    ens_info,            \* what the last get_model_info call returned
    core_constructed,    \* core.recognition.SketchRecognitionService() has run
    core_model,          \* self.model is not None
    core_class_names,    \* self.class_names
    core_top_k,          \* self.top_k
    core_model_loaded,   \* self.model_loaded
    core_metadata,       \* self.metadata is not None
    core_request,        \* last predict call: input and model behaviour
    core_response,       \* its return value
    core_table,          \* what _predict_based_on_features returned in it
    core_info,           \* what the last get_model_info call returned
    core_model_input,    \* what the last predict call handed to self.model
    services_model,      \* services.recognition: global model is not None
    services_class_names,\* services.recognition: global class_names
    model_files,         \* what glob finds under MODEL_PATH
    sketch_request,      \* last predict_sketch call
    sketch_response,     \* its return value, or the exception leaving it
    svc_constructed,     \* services.recognition.SketchRecognitionService()
    svc_model_loaded,    \* its self.model_loaded
    svc_metadata,        \* its self.metadata is not None
    svc_class_names,     \* its self.class_names
    svc_top_k,           \* its self.top_k
    svc_request,         \* last predict call on it
    svc_response,        \* its return value
    singleton,           \* accessor -> its module global (0 is None)
    constructions,       \* accessor -> instances constructed so far
    pc,                  \* thread -> position inside the accessor
    acc,                 \* thread -> the accessor it is in
    obj,                 \* thread -> the instance it has constructed
    ret,                 \* thread -> what the accessor returned to it
    fb_pc,               \* _predict_fallback: each thread's position in it
    fb_tensor,           \* _predict_fallback: each thread's processed_image
    fb_result,           \* _predict_fallback: the list each thread returned
    module_globals,      \* _recognition_service, _instance, _ensemble_instance
    patched,             \* use_ensemble.main has replaced the accessor
    app_created,         \* create_app has run
    last_call,           \* the last accessor call and what it returned
    instances,           \* service objects constructed so far
    img_input,           \* argument of the last image_utils call
    img_points,          \* preprocess_stroke_data: canvas points it drew
    img_tensor,          \* the array the call returned
    img_raised,          \* the call left with an exception
    img_features,        \* analyze_image_content of img_tensor
    img_geometry,        \* bounding box, crop and fit of the last normalizer call
    np_random            \* state of numpy's global random generator

ens_vars == <<ens_constructed, ens_models, ens_metadata, ens_model_loaded,
              category_model_map, ens_request, ens_response, ens_info>>

core_vars == <<core_constructed, core_model, core_class_names, core_top_k,
               core_model_loaded, core_metadata, core_request, core_response,
               core_table, core_info, core_model_input>>

services_vars == <<services_model, services_class_names, model_files,
                   sketch_request, sketch_response, svc_constructed,
                   svc_model_loaded, svc_metadata, svc_class_names, svc_top_k,
                   svc_request,
                   svc_response>>

fallback_vars == <<fb_pc, fb_tensor, fb_result>>

process_vars == <<module_globals, patched, app_created, last_call, instances>>

lazy_vars == <<singleton, constructions, pc, acc, obj, ret, fallback_vars,
               process_vars>>

image_vars == <<img_input, img_points, img_tensor, img_raised, img_features,
                img_geometry>>

vars == <<ens_vars, core_vars, services_vars, lazy_vars, image_vars,
          np_random>>

\* ------------------------------------------------- numpy global generator
\* number of generator states kept apart in the model
RngStates == 3

\* np.random.seed(hash_int % 10000000): the hash of the tensor's features
Seed(tensor) == tensor % RngStates

\* the generator state after one draw
NextRng(s) == (s + 1) % RngStates

\* np.random.dirichlet(alpha * n): a point of the simplex decided by the
\* generator state; every component positive, the components sum to 1.0
Dirichlet(s, n) ==
    [i \in 1..n |-> IF i = (s % n) + 1 THEN One - 5 * (n - 1) ELSE 5]

\* =================== core/ensemble_recognition_service.py ===============
BackendNames == <<"specialized", "general">>

EnsembleDefaultClasses ==
    <<"airplane", "apple", "bicycle", "car", "cat", "chair", "clock", "dog",
      "face", "fish", "house", "star", "tree", "umbrella">>

\* a key missing from self.metadata
Absent == [present |-> FALSE, class_names |-> <<>>]

NoMetadata == [b \in Range(BackendNames) |-> Absent]

\* what the files of one backend do at construction
LoadOutcomes ==
    [files : BOOLEAN, loadOk : BOOLEAN, metaOk : BOOLEAN,
     class_names : Vocabularies]

\* _load_specialized_model / _load_general_model on self.models
LoadModelInto(models, name, f) ==
    IF f.files /\ f.loadOk THEN Append(models, name) ELSE models

\* _load_specialized_model / _load_general_model on self.metadata
LoadMetadataInto(metadata, name, f) ==
    IF f.files /\ f.loadOk /\ f.metaOk
    THEN [metadata EXCEPT ![name] =
             [present |-> TRUE, class_names |-> f.class_names]]
    ELSE metadata

\* _setup_category_mapping
SetupCategoryMapping(metadata) ==
    LET specialized_categories ==
            IF metadata["specialized"].present
            THEN Range(metadata["specialized"].class_names) ELSE {}
        general_categories ==
            IF metadata["general"].present
            THEN Range(metadata["general"].class_names) ELSE {}
    IN [c \in Labels |->
          IF c \in specialized_categories THEN "specialized"
          ELSE IF c \in general_categories THEN "general"
          ELSE None]

\* EnsembleSketchRecognitionService.__init__
EnsembleInit(fs, fg) ==
    /\ ~ens_constructed
    /\ LET models == LoadModelInto(LoadModelInto(<<>>, "specialized", fs),
                                   "general", fg)
           metadata == LoadMetadataInto(
                          LoadMetadataInto(NoMetadata, "specialized", fs),
                          "general", fg)
       IN /\ ens_models' = models
          /\ ens_metadata' = metadata
          /\ category_model_map' = SetupCategoryMapping(metadata)
          /\ ens_model_loaded' = (models # <<>>)
    /\ ens_constructed' = TRUE
    /\ UNCHANGED <<ens_request, ens_response, ens_info, np_random,
                   core_vars, services_vars, lazy_vars, image_vars>>

\* one backend's behaviour during a call: model.predict raises or returns
BackendCalls ==
    {c \in [raises : BOOLEAN, output : OutputVectors] :
        c.raises => c.output = <<One>>}

\* _get_predictions_for_model
GetPredictionsForModel(models, metadata, model_name, call) ==
    IF model_name \notin Range(models) THEN <<>>
    ELSE IF ~metadata[model_name].present THEN <<>>     \* KeyError, caught
    ELSE IF call.raises THEN <<>>                       \* caught
    ELSE LET class_names == metadata[model_name].class_names
             top_indices == TopIndicesDesc(call.output, EnsembleTopN)
             kept == SelectSeq(top_indices, LAMBDA i : i <= Len(class_names))
         IN [k \in 1..Len(kept) |->
               [class |-> class_names[kept[k]], num |-> call.output[kept[k]]]]

\* d[key] = value on an insertion-ordered dict of class -> confidence
DictHas(d, class) == \E i \in DOMAIN d : d[i].class = class

DictGet(d, class) == d[CHOOSE i \in DOMAIN d : d[i].class = class].num

DictPut(d, class, num) ==
    IF DictHas(d, class)
    THEN [i \in DOMAIN d |-> IF d[i].class = class
                             THEN [class |-> class, num |-> num] ELSE d[i]]
    ELSE Append(d, [class |-> class, num |-> num])

\* all_predictions[(model_name, class_name)] = confidence, in order
RECURSIVE AllPredictions(_, _, _, _)
AllPredictions(models, metadata, names, calls) ==
    IF names = <<>> THEN <<>>
    ELSE LET model_predictions ==
                 GetPredictionsForModel(models, metadata, Head(names),
                                        calls[Head(names)])
         IN [k \in 1..Len(model_predictions) |->
               [model |-> Head(names),
                class |-> model_predictions[k].class,
                num |-> model_predictions[k].num]]
            \o AllPredictions(models, metadata, Tail(names), calls)

\* the routing loop with the preferred backend ignored: the larger score wins
RECURSIVE CombinePredictionsMax(_, _, _)
CombinePredictionsMax(all_predictions, map, combined) ==
    IF all_predictions = <<>> THEN combined
    ELSE LET e == Head(all_predictions)
             next == IF ~DictHas(combined, e.class)
                        \/ e.num > DictGet(combined, e.class)
                     THEN DictPut(combined, e.class, e.num)
                     ELSE combined
         IN CombinePredictionsMax(Tail(all_predictions), map, next)

\* the routing loop keeping only what a label's preferred backend scored
RECURSIVE CombinePredictionsPreferredOnly(_, _, _)
CombinePredictionsPreferredOnly(all_predictions, map, combined) ==
    IF all_predictions = <<>> THEN combined
    ELSE LET e == Head(all_predictions)
             next == IF e.model = map[e.class]
                     THEN DictPut(combined, e.class, e.num)
                     ELSE combined
         IN CombinePredictionsPreferredOnly(Tail(all_predictions), map, next)

\* the routing loop of predict over all_predictions.items()
RECURSIVE CombinePredictions(_, _, _)
CombinePredictions(all_predictions, map, combined) ==
    IF all_predictions = <<>> THEN combined
    ELSE LET e == Head(all_predictions)
             next ==
               IF map[e.class] # None
               THEN IF e.model = map[e.class] \/ ~DictHas(combined, e.class)
                    THEN DictPut(combined, e.class, e.num)
                    ELSE combined
               ELSE IF ~DictHas(combined, e.class)
                       \/ e.num > DictGet(combined, e.class)
                    THEN DictPut(combined, e.class, e.num)
                    ELSE combined
         IN CombinePredictions(Tail(all_predictions), map, next)

\* _predict_fallback: the ranked list it returns
EnsemblePredictFallback(metadata, tensor) ==
    LET union == metadata["specialized"].class_names
                 \o SelectSeq(metadata["general"].class_names,
                       LAMBDA c : c \notin
                          Range(metadata["specialized"].class_names))
        class_names == IF union = <<>> THEN EnsembleDefaultClasses ELSE union
        random_confidences == Dirichlet(Seed(tensor), Len(class_names))
        results == [i \in 1..Len(class_names) |->
                      [class |-> class_names[i], num |-> random_confidences[i]]]
    IN Take(SortDesc(results), EnsembleTopN)

\* predict with a backend's exception reaching predict's own handler
EnsemblePredictAbortOnRaise(models, metadata, loaded, map, tensor, calls) ==
    IF ~loaded \/ models = <<>>
       \/ \E b \in Range(models) : calls[b].raises \/ ~metadata[b].present
    THEN EnsemblePredictFallback(metadata, tensor)
    ELSE Take(SortDesc(CombinePredictions(
                 AllPredictions(models, metadata, models, calls), map, <<>>)),
              EnsembleTopN)

\* EnsembleSketchRecognitionService.predict: the list it returns
EnsemblePredict(models, metadata, loaded, map, tensor, calls) ==
    IF ~loaded \/ models = <<>>
    THEN EnsemblePredictFallback(metadata, tensor)
    ELSE Take(SortDesc(CombinePredictions(
                 AllPredictions(models, metadata, models, calls), map, <<>>)),
              EnsembleTopN)

\* predict reaches _predict_fallback, which seeds and draws
EnsembleUsesFallback(models, loaded) == ~loaded \/ models = <<>>

\* inputs of recognize_sketch and what preprocess_image makes of them
EnsembleInputKinds == {"image", "bad_base64", "unsupported_type"}

PreprocessRaises(kind) == kind \in {"bad_base64", "unsupported_type"}

EnsembleInputs ==
    {i \in [kind : EnsembleInputKinds, tensor : Tensors] :
        PreprocessRaises(i.kind) => i.tensor = 1}

NoRequest ==
    [input |-> [kind |-> None, tensor |-> 1],
     calls |-> [b \in Range(BackendNames) |->
                  [raises |-> FALSE, output |-> <<One>>]]]

NoResponse == [raised |-> FALSE, success |-> FALSE, top_predictions |-> <<>>]

\* an exception leaves the call instead of a return value
Raised == [raised |-> TRUE, success |-> FALSE, top_predictions |-> <<>>]

ErrorResponse(num, den) ==
    [raised |-> FALSE, success |-> FALSE,
     top_predictions |-> <<[class |-> "error", num |-> num, den |-> den]>>]

\* recognize_sketch without its except clause
EnsembleRecognizeResponseUncaught(models, metadata, loaded, map, input, calls) ==
    IF PreprocessRaises(input.kind)
    THEN Raised
    ELSE LET predictions ==
                 EnsemblePredict(models, metadata, loaded, map,
                                 input.tensor, calls)
         IN [raised |-> FALSE, success |-> TRUE,
             top_predictions |->
                [k \in 1..Len(predictions) |->
                   [class |-> predictions[k].class,
                    num |-> predictions[k].num * Percent,
                    den |-> One]]]

\* recognize_sketch: the dict it returns
EnsembleRecognizeResponse(models, metadata, loaded, map, input, calls) ==
    IF PreprocessRaises(input.kind)
    THEN ErrorResponse(Percent * One, One)
    ELSE LET predictions ==
                 EnsemblePredict(models, metadata, loaded, map,
                                 input.tensor, calls)
         IN [raised |-> FALSE, success |-> TRUE,
             top_predictions |->
                [k \in 1..Len(predictions) |->
                   [class |-> predictions[k].class,
                    num |-> predictions[k].num * Percent,
                    den |-> One]]]

\* recognize_sketch marking the service as not loaded once a backend's
\* inference has raised
EnsembleRecognizeSketchUnloading(input, calls) ==
    /\ ens_constructed
    /\ ens_request = NoRequest
    /\ ens_request' = [input |-> input, calls |-> calls]
    /\ ens_response' =
          EnsembleRecognizeResponse(ens_models, ens_metadata, ens_model_loaded,
                                    category_model_map, input, calls)
    /\ np_random' =
          IF ~PreprocessRaises(input.kind)
             /\ EnsembleUsesFallback(ens_models, ens_model_loaded)
          THEN NextRng(Seed(input.tensor)) ELSE np_random
    /\ ens_model_loaded' =
          (ens_model_loaded
           /\ (PreprocessRaises(input.kind)
               \/ \A b \in Range(ens_models) : ~calls[b].raises))
    /\ UNCHANGED <<ens_constructed, ens_models, ens_metadata,
                   category_model_map, ens_info, core_vars, services_vars,
                   lazy_vars, image_vars>>

\* EnsembleSketchRecognitionService.recognize_sketch
EnsembleRecognizeSketch(input, calls) ==
    /\ ens_constructed
    /\ ens_request = NoRequest
    /\ ens_request' = [input |-> input, calls |-> calls]
    /\ ens_response' =
          EnsembleRecognizeResponse(ens_models, ens_metadata, ens_model_loaded,
                                    category_model_map, input, calls)
    /\ np_random' =
          IF ~PreprocessRaises(input.kind)
             /\ EnsembleUsesFallback(ens_models, ens_model_loaded)
          THEN NextRng(Seed(input.tensor)) ELSE np_random
    /\ UNCHANGED <<ens_constructed, ens_models, ens_metadata,
                   ens_model_loaded, category_model_map, ens_info,
                   core_vars, services_vars, lazy_vars, image_vars>>

\* no get_model_info call has returned
NoInfo ==
    [status |-> None, available |-> [b \in Range(BackendNames) |-> FALSE],
     class_names |-> {}]

\* get_model_info: the dict it returns
EnsembleModelInfo(models, metadata, loaded) ==
    LET specialized_categories ==
            IF metadata["specialized"].present
            THEN Range(metadata["specialized"].class_names) ELSE {}
        general_categories ==
            IF metadata["general"].present
            THEN Range(metadata["general"].class_names) ELSE {}
    IN [status |-> IF loaded THEN "loaded" ELSE "not_loaded",
        available |-> [b \in Range(BackendNames) |-> b \in Range(models)],
        class_names |-> specialized_categories \cup general_categories]

\* EnsembleSketchRecognitionService.get_model_info
EnsembleGetModelInfo ==
    /\ ens_constructed
    /\ ens_request = NoRequest
    /\ ens_info = NoInfo
    /\ ens_info' = EnsembleModelInfo(ens_models, ens_metadata,
                                     ens_model_loaded)
    /\ UNCHANGED <<ens_constructed, ens_models, ens_metadata,
                   ens_model_loaded, category_model_map, ens_request,
                   ens_response, np_random, core_vars, services_vars,
                   lazy_vars, image_vars>>

\* the caller has consumed the model information
EnsembleInfoReturn ==
    /\ ens_info # NoInfo
    /\ ens_info' = NoInfo
    /\ UNCHANGED <<ens_constructed, ens_models, ens_metadata,
                   ens_model_loaded, category_model_map, ens_request,
                   ens_response, np_random, core_vars, services_vars,
                   lazy_vars, image_vars>>

EnsembleStart ==
    /\ ens_constructed = FALSE
    /\ ens_models = <<>>
    /\ ens_metadata = NoMetadata
    /\ ens_model_loaded = FALSE
    /\ category_model_map = [c \in Labels |-> None]
    /\ ens_request = NoRequest
    /\ ens_response = NoResponse
    /\ ens_info = NoInfo

\* the caller has consumed the response; the request's data is discarded
EnsembleReturn ==
    /\ ens_request # NoRequest
    /\ ens_request' = NoRequest
    /\ ens_response' = NoResponse
    /\ UNCHANGED <<ens_constructed, ens_models, ens_metadata,
                   ens_model_loaded, category_model_map, ens_info,
                   np_random, core_vars, services_vars, lazy_vars,
                   image_vars>>



\* ========================= core/recognition.py ==========================
QUICKDRAW_CLASSES ==
    <<"apple", "bicycle", "car", "cat", "chair", "clock", "dog", "face",
      "fish", "house", "star", "tree", "umbrella", "airplane">>

\* indices predict keeps from the model output: argsort()[-5:][::-1]
CoreTopN == 5

\* the confidence 0.01 of a padding entry
PadConfidence == 1

\* class names a metadata file of this service lists
CoreLabels == {"apple", "cat", "cat_3000"}

CoreVocabularies ==
    {v \in UNION {[1..n -> CoreLabels] : n \in 1..MaxVocab} : IsInjective(v)}

\* '_' in class_name
HasUnderscore(class_name) == class_name \in {"cat_3000"}

\* class_name.split('_')[0] when '_' in class_name
StripSuffix(class_name) ==
    IF class_name = "cat_3000" THEN "cat" ELSE class_name

\* top_k values a service is constructed with (5 when not given)
TopKValues == {3, 5}

\* what __init__ finds: no path given, no model in the directory, a load
\* failure, or a model with or without its metadata
CoreLoadOutcomes ==
    {"no_path", "not_found", "load_error", "load_raises", "no_metadata",
     "metadata_without_class_names"}
    \cup {"metadata"}

\* self.model is not None after __init__
CoreLoadedModel(outcome) ==
    outcome \in {"no_metadata", "metadata_without_class_names", "metadata"}

\* self.class_names after __init__
CoreLoadedClassNames(outcome, class_names) ==
    CASE outcome \in {"no_path", "load_raises"} -> QUICKDRAW_CLASSES
      [] outcome \in {"not_found", "load_error"} -> <<>>
      [] outcome \in {"no_metadata", "metadata_without_class_names"}
            -> QUICKDRAW_CLASSES
      [] outcome = "metadata" -> class_names

\* self.model_loaded after __init__
CoreLoadedFlag(outcome) == outcome \notin {"not_found", "load_error"}

CoreNoRequest ==
    [input |-> [kind |-> None, tensor |-> 1, features |->
                  [shape_type |-> "no_shape", coverage |-> 0,
                   cy |-> 50, cx |-> 50]],
     model |-> [raises |-> FALSE, output |-> <<>>]]

\* SketchRecognitionService.__init__
CoreInit(outcome, class_names, top_k) ==
    /\ ~core_constructed
    /\ core_constructed' = TRUE
    /\ core_model' = CoreLoadedModel(outcome)
    /\ core_class_names' = CoreLoadedClassNames(outcome, class_names)
    /\ core_model_loaded' = CoreLoadedFlag(outcome)
    /\ core_metadata' =
          (outcome \in {"metadata_without_class_names", "metadata"})
    /\ core_top_k' = top_k
    /\ UNCHANGED <<core_request, core_response, core_table, core_info,
                   core_model_input, ens_vars, np_random, services_vars, lazy_vars,
                   image_vars>>

\* ---- analyze_image_content output, as the fallback table reads it
ShapeTypes == {"circular", "rectangular", "irregular", "no_shape"}

CoverageValues == {0, 15, 30, 100}

CentroidValues == {30, 70}

FeatureVectors ==
    [shape_type : ShapeTypes, coverage : CoverageValues,
     cy : CentroidValues, cx : CentroidValues]

P(class, num) == [class |-> class, num |-> num]

\* the table's answer when features has an 'error' key
ErrorFeaturePredictions == <<P("error", 80), P("unknown", 20)>>

\* the table without a branch for shapes that are none of the three named
PredictBasedOnFeaturesNamedShapesOnly(f) ==
    IF f.shape_type = "circular" THEN
        <<P("circle", 65), P("clock", 20), P("face", 10),
          P("apple", 3), P("fish", 2)>>
    ELSE IF f.shape_type = "rectangular" THEN
        <<P("house", 60), P("chair", 20), P("car", 10),
          P("airplane", 5), P("clock", 5)>>
    ELSE IF f.shape_type = "irregular" THEN
        <<P("tree", 30), P("dog", 25), P("cat", 20),
          P("fish", 15), P("star", 10)>>
    ELSE <<>>

\* _predict_based_on_features on features without an 'error' key
PredictBasedOnFeatures(f) ==
    IF f.shape_type = "circular" THEN
        IF f.coverage < 20 THEN
            <<P("circle", 65), P("clock", 20), P("face", 10),
              P("apple", 3), P("fish", 2)>>
        ELSE IF f.coverage < 40 THEN
            <<P("face", 45), P("apple", 25), P("clock", 15),
              P("fish", 10), P("star", 5)>>
        ELSE
            <<P("apple", 50), P("face", 20), P("clock", 15),
              P("star", 10), P("fish", 5)>>
    ELSE IF f.shape_type = "rectangular" THEN
        IF f.cy < 40 THEN
            <<P("house", 60), P("chair", 20), P("car", 10),
              P("airplane", 5), P("clock", 5)>>
        ELSE IF f.coverage < 30 THEN
            <<P("house", 40), P("chair", 30), P("car", 15),
              P("clock", 10), P("bicycle", 5)>>
        ELSE
            <<P("chair", 35), P("house", 30), P("car", 20),
              P("clock", 10), P("bicycle", 5)>>
    ELSE
        IF f.coverage < 15 THEN
            IF f.cy > 60 THEN
                <<P("tree", 40), P("umbrella", 30), P("bicycle", 15),
                  P("dog", 10), P("chair", 5)>>
            ELSE
                <<P("cat", 35), P("star", 25), P("dog", 20),
                  P("umbrella", 15), P("fish", 5)>>
        ELSE IF f.coverage < 30 THEN
            IF f.cx < 40 THEN
                <<P("car", 40), P("bicycle", 25), P("dog", 20),
                  P("cat", 10), P("fish", 5)>>
            ELSE
                <<P("airplane", 30), P("fish", 25), P("star", 20),
                  P("bicycle", 15), P("umbrella", 10)>>
        ELSE
            <<P("tree", 30), P("dog", 25), P("cat", 20),
              P("fish", 15), P("star", 10)>>

\* features.get defaults, used when predict built no features (features = {})
DefaultFeatures ==
    [shape_type |-> "irregular", coverage |-> 0, cy |-> 50, cx |-> 50]

\* ---- inputs of predict
\* a 4-D array with batch size 1, a canvas dict that decodes, a canvas dict
\* whose preprocessing fails, a value of no handled type, and an array or
\* image whose preprocessing raises
CoreInputKinds ==
    {"tensor", "canvas", "canvas_error", "unsupported_type", "array_error"}

CoreCarriesFeatures(kind) == kind \in {"tensor", "canvas"}

CoreInputs ==
    {i \in [kind : CoreInputKinds, tensor : Tensors,
            features : FeatureVectors \cup {CoreNoRequest.input.features}] :
        /\ i.kind # "tensor" => i.tensor = 1
        /\ IF CoreCarriesFeatures(i.kind)
           THEN i.features \in FeatureVectors
           ELSE i.features = CoreNoRequest.input.features}

\* self.model.predict during one call: raises, or returns a score vector
\* (possibly empty)
CoreModelCalls ==
    {c \in [raises : BOOLEAN, output : OutputVectors \cup {<<>>}] :
        c.raises => c.output = <<>>}

\* the results list predict builds from the model output
CoreModelResults(class_names, output) ==
    LET top_indices == TopIndicesDesc(output, CoreTopN)
        kept == SelectSeq(top_indices, LAMBDA i : i <= Len(class_names))
    IN [k \in 1..Len(kept) |->
          [class |-> StripSuffix(class_names[kept[k]]),
           num |-> output[kept[k]], den |-> One]]

\* the list the feature table gives for an input
CoreFeaturePredictions(input) ==
    IF input.kind = "canvas_error" THEN ErrorFeaturePredictions
    ELSE IF input.kind = "unsupported_type"
         THEN PredictBasedOnFeatures(DefaultFeatures)
         ELSE PredictBasedOnFeatures(input.features)

\* padding with low-confidence guesses from self.class_names
CorePad(predictions, class_names, top_k) ==
    IF Len(predictions) < top_k
    THEN LET remaining_classes ==
                 SelectSeq(class_names,
                    LAMBDA c : \A k \in DOMAIN predictions :
                                  predictions[k].class # c)
             added == Take(remaining_classes, top_k - Len(predictions))
         IN predictions \o
            [k \in 1..Len(added) |-> P(StripSuffix(added[k]), PadConfidence)]
    ELSE predictions

\* confidence / total_confidence for every entry
CoreNormalize(predictions) ==
    LET total_confidence ==
            SeqSum([k \in DOMAIN predictions |-> predictions[k].num])
    IN [k \in DOMAIN predictions |->
          [class |-> predictions[k].class, num |-> predictions[k].num,
           den |-> IF total_confidence > 0 THEN total_confidence ELSE One]]

\* the fallback half of predict: table, padding, sort, top_k, normalization
CoreFallback(class_names, top_k, input) ==
    LET table == CoreFeaturePredictions(input)
        predictions ==
            IF table = <<>>
            THEN <<P("unknown", 75), P("drawing", 25)>> ELSE table
    IN CoreNormalize(Take(SortDesc(CorePad(predictions, class_names, top_k)),
                          top_k))

\* the model produced a usable results list in this call
CoreModelAnswers(model, class_names, input, call) ==
    /\ model
    /\ input.kind # "unsupported_type"     \* processed_input is None
    /\ ~call.raises
    /\ call.output # <<>>
    /\ CoreModelResults(class_names, call.output) # <<>>

\* SketchRecognitionService.predict: the dict it returns
CorePredictResponse(model, class_names, top_k, input, call) ==
    IF input.kind = "array_error" THEN ErrorResponse(One, One)
    ELSE IF CoreModelAnswers(model, class_names, input, call)
    THEN [raised |-> FALSE, success |-> TRUE,
          top_predictions |-> CoreModelResults(class_names, call.output)]
    ELSE [raised |-> FALSE, success |-> TRUE,
          top_predictions |-> CoreFallback(class_names, top_k, input)]

\* self.model.predict was not called
CoreNoModelInput == [source |-> None, tensor |-> 1]

\* processed_input with every array sent through preprocess_image
CoreProcessedInputPreprocessing(input) ==
    CASE input.kind = "tensor"
           -> [source |-> "preprocess_image", tensor |-> input.tensor]
      [] input.kind = "canvas"
           -> [source |-> "preprocess_canvas_data", tensor |-> input.tensor]
      [] input.kind = "canvas_error"
           -> [source |-> "np.random.random", tensor |-> input.tensor]
      [] OTHER -> CoreNoModelInput

\* processed_input: the 4-D array itself, what preprocess_canvas_data made
\* of a canvas dict, or its random array; None for an unhandled type
CoreProcessedInput(input) ==
    CASE input.kind = "tensor"
           -> [source |-> "input_data", tensor |-> input.tensor]
      [] input.kind = "canvas"
           -> [source |-> "preprocess_canvas_data", tensor |-> input.tensor]
      [] input.kind = "canvas_error"
           -> [source |-> "np.random.random", tensor |-> input.tensor]
      [] OTHER -> CoreNoModelInput

\* SketchRecognitionService.predict
CorePredict(input, call) ==
    /\ core_constructed
    /\ core_request = CoreNoRequest
    /\ ~core_model => call = CoreNoRequest.model
    /\ core_request' = [input |-> input, model |-> call]
    /\ core_response' = CorePredictResponse(core_model, core_class_names,
                                            core_top_k, input, call)
    /\ core_table' =
          IF input.kind # "array_error"
             /\ ~CoreModelAnswers(core_model, core_class_names, input, call)
          THEN CoreFeaturePredictions(input) ELSE <<>>
    /\ np_random' = IF input.kind = "canvas_error"
                    THEN NextRng(np_random) ELSE np_random
    /\ core_model_input' = IF core_model THEN CoreProcessedInput(input)
                                         ELSE CoreNoModelInput
    /\ UNCHANGED <<core_constructed, core_model, core_class_names, core_top_k,
                   core_model_loaded, core_metadata, core_info, ens_vars,
                   services_vars, lazy_vars, image_vars>>

\* the caller has consumed the response; the request's data is discarded
CoreReturn ==
    /\ core_request # CoreNoRequest
    /\ core_request' = CoreNoRequest
    /\ core_response' = NoResponse
    /\ core_table' = <<>>
    /\ core_model_input' = CoreNoModelInput
    /\ UNCHANGED <<core_constructed, core_model, core_class_names, core_top_k,
                   core_model_loaded, core_metadata, core_info, ens_vars,
                   np_random, services_vars, lazy_vars, image_vars>>

\* no get_model_info call has returned
CoreNoInfo == [status |-> None, detailed |-> FALSE, class_names |-> <<>>]

\* get_model_info: the dict it returns
CoreModelInfo(class_names, loaded) ==
    IF ~loaded
    THEN [status |-> "not_loaded", detailed |-> FALSE, class_names |-> <<>>]
    ELSE [status |-> "loaded", detailed |-> TRUE, class_names |-> class_names]

\* SketchRecognitionService.get_model_info
CoreGetModelInfo ==
    /\ core_constructed
    /\ core_request = CoreNoRequest
    /\ core_info = CoreNoInfo
    /\ core_info' = CoreModelInfo(core_class_names, core_model_loaded)
    /\ UNCHANGED <<core_constructed, core_model, core_class_names, core_top_k,
                   core_model_loaded, core_metadata, core_request,
                   core_response, core_table, core_model_input, ens_vars,
                   np_random,
                   services_vars, lazy_vars, image_vars>>

\* the caller has consumed the model information
CoreInfoReturn ==
    /\ core_info # CoreNoInfo
    /\ core_info' = CoreNoInfo
    /\ UNCHANGED <<core_constructed, core_model, core_class_names, core_top_k,
                   core_model_loaded, core_metadata, core_request,
                   core_response, core_table, core_model_input, ens_vars,
                   np_random,
                   services_vars, lazy_vars, image_vars>>

CoreStart ==
    /\ core_constructed = FALSE
    /\ core_model = FALSE
    /\ core_class_names = <<>>
    /\ core_top_k = 5
    /\ core_model_loaded = FALSE
    /\ core_metadata = FALSE
    /\ core_request = CoreNoRequest
    /\ core_response = NoResponse
    /\ core_table = <<>>
    /\ core_info = CoreNoInfo
    /\ core_model_input = CoreNoModelInput

\* =================== services/recognition.py ============================
ServicesQuickdrawClasses ==
    <<"apple", "banana", "car", "cat", "chair", "clock", "cloud", "cup",
      "door", "envelope", "eye", "fish", "flower", "house", "key", "leaf",
      "pants", "pencil", "sun", "table", "tree", "umbrella">>

\* candidates predict_sketch returns from a model: argsort()[-5:]
SketchTopN == 5
\* classes dummy_predictions draws over: QUICKDRAW_CLASSES[:5]
DummyClasses == 5

\* glob(MODEL_PATH/*.h5): nothing, a model that loads, a file whose load
\* raises
ModelFiles == {"none", "ok", "corrupt"}

\* model.predict during one call: raises, or returns a non-empty score vector
ModelCalls ==
    {c \in [raises : BOOLEAN, output : OutputVectors \cup {<<>>}] :
        c.raises <=> c.output = <<>>}

NoCall == [raises |-> TRUE, output |-> <<>>]

\* load_model(): the globals afterwards and the value returned
LoadModel(model, class_names, files) ==
    IF model THEN [model |-> TRUE, class_names |-> class_names, ok |-> TRUE]
    ELSE IF files = "ok"
         THEN [model |-> TRUE, class_names |-> ServicesQuickdrawClasses,
               ok |-> TRUE]
         ELSE [model |-> FALSE, class_names |-> class_names, ok |-> FALSE]

\* dummy_predictions(): a draw from the global generator, sorted
DummyPredictions(rng) ==
    LET confidences == Dirichlet(rng, DummyClasses)
    IN [raised |-> FALSE, success |-> TRUE,
        top_predictions |->
           SortDesc([i \in 1..DummyClasses |->
                       [class |-> ServicesQuickdrawClasses[i],
                        num |-> confidences[i], den |-> One]])]

\* a PIL image, or a value preprocess_image cannot resize
SketchInputKinds == {"image", "malformed"}

SketchInputs == [kind : SketchInputKinds, image : Tensors]

NoSketch == [input |-> [kind |-> None, image |-> 0], call |-> NoCall]

\* predict_sketch with a model: the dict it returns or the exception
SketchModelResponse(class_names, input, call) ==
    IF input.kind = "malformed" \/ call.raises THEN Raised
    ELSE LET top_indices == TopIndicesDesc(call.output, SketchTopN)
         IN IF \E k \in DOMAIN top_indices :
                  top_indices[k] > Len(class_names)
            THEN Raised                     \* class_names[i]: IndexError
            ELSE [raised |-> FALSE, success |-> TRUE,
                  top_predictions |->
                     [k \in DOMAIN top_indices |->
                        [class |-> class_names[top_indices[k]],
                         num |-> call.output[top_indices[k]],
                         den |-> One]]]

\* predict_sketch(image)
PredictSketch(input, call) ==
    LET loaded == LoadModel(services_model, services_class_names,
                            model_files)
    IN /\ services_model' = loaded.model
       /\ services_class_names' = loaded.class_names
       /\ sketch_request' = [input |-> input, call |-> call]
       /\ IF loaded.ok
          THEN /\ sketch_response' =
                     SketchModelResponse(loaded.class_names, input, call)
               /\ UNCHANGED np_random
          ELSE /\ call = NoCall
               /\ sketch_response' = DummyPredictions(np_random)
               /\ np_random' = NextRng(np_random)
       /\ UNCHANGED <<model_files, svc_constructed, svc_model_loaded,
                      svc_metadata,
                      svc_class_names, svc_top_k, svc_request, svc_response,
                      ens_vars, core_vars, lazy_vars, image_vars>>

\* download_model(): writes a model file when there is none
DownloadModel ==
    /\ model_files = "none"
    /\ model_files' = "ok"
    /\ UNCHANGED <<services_model, services_class_names, sketch_request,
                   sketch_response, svc_constructed, svc_model_loaded,
                   svc_metadata,
                   svc_class_names, svc_top_k, svc_request, svc_response,
                   ens_vars, core_vars, lazy_vars, np_random, image_vars>>

\* ---- class SketchRecognitionService of services/recognition.py
ServicesLoadOutcomes ==
    {"not_found", "load_error", "no_metadata",
     "metadata_without_class_names", "metadata"}

\* SketchRecognitionService.__init__
ServicesInit(outcome, class_names, top_k) ==
    /\ ~svc_constructed
    /\ svc_constructed' = TRUE
    /\ svc_metadata' =
          (outcome \in {"metadata_without_class_names", "metadata"})
    /\ svc_model_loaded' =
          (outcome \in {"no_metadata", "metadata_without_class_names",
                        "metadata"})
    /\ svc_class_names' = IF outcome = "metadata" THEN class_names ELSE <<>>
    /\ svc_top_k' = top_k
    /\ UNCHANGED <<services_model, services_class_names, model_files,
                   sketch_request, sketch_response, svc_request, svc_response,
                   ens_vars, core_vars, lazy_vars, np_random, image_vars>>

\* an array, a canvas dict that decodes, one whose preprocessing raises
ServicesInputKinds == {"tensor", "canvas", "canvas_error"}

NoServicesRequest == [kind |-> None, call |-> NoCall]

\* the top_predictions list predict builds from the model output
ServicesModelResults(class_names, top_k, output) ==
    LET top_k_indices == TopIndicesDesc(output, top_k)
        kept == SelectSeq(top_k_indices, LAMBDA i : i <= Len(class_names))
    IN [k \in 1..Len(kept) |->
          [class |-> StripSuffix(class_names[kept[k]]),
           num |-> output[kept[k]], den |-> One]]

\* an error dict: success False and no 'predictions' key
ServicesFailure == [raised |-> FALSE, success |-> FALSE,
                    top_predictions |-> <<>>]

\* SketchRecognitionService.predict: the dict it returns
ServicesPredictResponse(model_loaded, class_names, top_k, kind, call) ==
    IF ~model_loaded THEN ServicesFailure
    ELSE IF kind = "canvas_error" \/ call.raises THEN ServicesFailure
    ELSE [raised |-> FALSE, success |-> TRUE,
          top_predictions |->
             ServicesModelResults(class_names, top_k, call.output)]

\* SketchRecognitionService.predict
ServicesPredict(kind, call) ==
    /\ svc_constructed
    /\ svc_request = NoServicesRequest
    /\ ~svc_model_loaded => call = NoCall
    /\ svc_request' = [kind |-> kind, call |-> call]
    /\ svc_response' = ServicesPredictResponse(svc_model_loaded,
                                               svc_class_names, svc_top_k,
                                               kind, call)
    /\ UNCHANGED <<services_model, services_class_names, model_files,
                   sketch_request, sketch_response, svc_constructed,
                   svc_model_loaded, svc_metadata, svc_class_names, svc_top_k,
                   ens_vars, core_vars, lazy_vars, np_random, image_vars>>

\* the caller has consumed the response; the request's data is discarded
ServicesReturn ==
    /\ svc_request # NoServicesRequest
    /\ svc_request' = NoServicesRequest
    /\ svc_response' = NoResponse
    /\ UNCHANGED <<services_model, services_class_names, model_files,
                   sketch_request, sketch_response, svc_constructed,
                   svc_model_loaded, svc_metadata, svc_class_names, svc_top_k,
                   ens_vars, core_vars, lazy_vars, np_random, image_vars>>

ServicesStart ==
    /\ services_model = FALSE
    /\ services_class_names = <<>>
    /\ model_files = "none"
    /\ sketch_request = NoSketch
    /\ sketch_response = NoResponse
    /\ svc_constructed = FALSE
    /\ svc_model_loaded = FALSE
    /\ svc_metadata = FALSE
    /\ svc_class_names = <<>>
    /\ svc_top_k = 5
    /\ svc_request = NoServicesRequest
    /\ svc_response = NoResponse

\* =================== lazy accessors =====================================
\* threads of the development server that call an accessor
NumThreads == 2

Threads == 1..NumThreads

\* get_recognition_service of core/recognition.py,
\* get_ensemble_recognition_service, and load_model of services/recognition.py
Accessors ==
    {"get_recognition_service", "get_ensemble_recognition_service",
     "load_model"}

\* the test "is None" at the head of the accessor
LazyCheck(t, a) ==
    /\ pc[t] = "idle"
    /\ acc' = [acc EXCEPT ![t] = a]
    /\ pc' = [pc EXCEPT ![t] = IF singleton[a] = 0 THEN "construct"
                                                   ELSE "return"]
    /\ UNCHANGED <<singleton, constructions, obj, ret, ens_vars, core_vars,
                   services_vars, np_random, image_vars,
                   fallback_vars, process_vars>>

\* the constructor call, or the model load, on the right of the assignment;
\* only load_model can come back without an object
LazyConstruct(t, ok) ==
    /\ pc[t] = "construct"
    /\ ~ok => acc[t] = "load_model"
    /\ IF ok
       THEN /\ constructions' =
                  [constructions EXCEPT ![acc[t]] = constructions[acc[t]] + 1]
            /\ obj' = [obj EXCEPT ![t] = constructions[acc[t]] + 1]
            /\ pc' = [pc EXCEPT ![t] = "assign"]
       ELSE /\ pc' = [pc EXCEPT ![t] = "done"]
            /\ UNCHANGED <<constructions, obj>>
    /\ UNCHANGED <<singleton, acc, ret, ens_vars, core_vars, services_vars,
                   np_random, image_vars,
                   fallback_vars, process_vars>>

\* the store into the module global
LazyAssign(t) ==
    /\ pc[t] = "assign"
    /\ singleton' = [singleton EXCEPT ![acc[t]] = obj[t]]
    /\ pc' = [pc EXCEPT ![t] = "return"]
    /\ UNCHANGED <<constructions, acc, obj, ret, ens_vars, core_vars,
                   services_vars, np_random, image_vars,
                   fallback_vars, process_vars>>

\* return of the module global: what the caller goes on to use
LazyReturn(t) ==
    /\ pc[t] = "return"
    /\ ret' = [ret EXCEPT ![t] = singleton[acc[t]]]
    /\ pc' = [pc EXCEPT ![t] = "done"]
    /\ UNCHANGED <<singleton, constructions, acc, obj, ens_vars, core_vars,
                   services_vars, np_random, image_vars,
                   fallback_vars, process_vars>>

\* the request is answered and the thread takes the next one
LazyFinish(t) ==
    /\ pc[t] = "done"
    /\ pc' = [pc EXCEPT ![t] = "idle"]
    /\ obj' = [obj EXCEPT ![t] = 0]
    /\ ret' = [ret EXCEPT ![t] = 0]
    /\ UNCHANGED <<singleton, constructions, acc, ens_vars, core_vars,
                   services_vars, np_random, image_vars,
                   fallback_vars, process_vars>>

\* ---- _predict_fallback under threads (core/recognition_service.py and
\* core/ensemble_recognition_service.py)
\* the vocabulary of the service the threads share
FallbackClassNames == <<"apple", "car", "cat">>

\* the ranked list _predict_fallback builds from a generator state
FallbackRanked(s) ==
    LET random_confidences == Dirichlet(s, Len(FallbackClassNames))
    IN Take(SortDesc([i \in 1..Len(FallbackClassNames) |->
                        [class |-> FallbackClassNames[i],
                         num |-> random_confidences[i]]]), EnsembleTopN)

\* np.random.seed(hash_int % 10000000)
FallbackSeed(t, tensor) ==
    /\ fb_pc[t] = "idle"
    /\ fb_tensor' = [fb_tensor EXCEPT ![t] = tensor]
    /\ np_random' = Seed(tensor)
    /\ fb_pc' = [fb_pc EXCEPT ![t] = "seeded"]
    /\ UNCHANGED <<fb_result, singleton, constructions, pc, acc, obj, ret,
                   process_vars, ens_vars, core_vars, services_vars,
                   image_vars>>

\* np.random.dirichlet(...), the sort and the return
FallbackDraw(t) ==
    /\ fb_pc[t] = "seeded"
    /\ fb_result' = [fb_result EXCEPT ![t] = FallbackRanked(np_random)]
    /\ np_random' = NextRng(np_random)
    /\ fb_pc' = [fb_pc EXCEPT ![t] = "done"]
    /\ UNCHANGED <<fb_tensor, singleton, constructions, pc, acc, obj, ret,
                   process_vars, ens_vars, core_vars, services_vars,
                   image_vars>>

\* the request is answered and the thread takes the next one
FallbackFinish(t) ==
    /\ fb_pc[t] = "done"
    /\ fb_pc' = [fb_pc EXCEPT ![t] = "idle"]
    /\ fb_tensor' = [fb_tensor EXCEPT ![t] = 1]
    /\ fb_result' = [fb_result EXCEPT ![t] = <<>>]
    /\ UNCHANGED <<np_random, singleton, constructions, pc, acc, obj, ret,
                   process_vars, ens_vars, core_vars, services_vars,
                   image_vars>>

\* ---- module bindings: use_ensemble.py, app/__init__.py, the routes
\* most service objects constructed in one process
MaxInstances == 3

ModelPaths == {None, "model.h5"}

ModelDirs == {None, "models"}

NoInstance == [class |-> None, model_path |-> None, model_dir |-> None, id |-> 0]

\* the module globals holding the singletons
ModuleGlobals == {"_recognition_service", "_instance", "_ensemble_instance"}

NoAccess ==
    [caller |-> None, global |-> None, model_path |-> None,
     model_dir |-> None, result |-> NoInstance]

\* an accessor that constructs again when it is given arguments
GetRecognitionServiceReloading(current, model_path, model_dir, id) ==
    IF current = NoInstance \/ model_path # None \/ model_dir # None
    THEN [class |-> "SketchRecognitionService", model_path |-> model_path,
          model_dir |-> model_dir, id |-> id]
    ELSE current

\* get_recognition_service of core/recognition.py: the value of
\* _recognition_service after the call
GetRecognitionService(current, model_path, model_dir, id) ==
    IF current = NoInstance
    THEN [class |-> "SketchRecognitionService", model_path |-> model_path,
          model_dir |-> model_dir, id |-> id]
    ELSE current

\* get_recognition_service of core/recognition_service.py: the value of
\* _instance after the call
LegacyGetRecognitionService(current, model_path, id) ==
    IF current = NoInstance
    THEN [class |-> "recognition_service.SketchRecognitionService",
          model_path |-> model_path, model_dir |-> None, id |-> id]
    ELSE current

\* get_ensemble_recognition_service: the value of _ensemble_instance after it
GetEnsembleRecognitionService(current, id) ==
    IF current = NoInstance
    THEN [class |-> "EnsembleSketchRecognitionService", model_path |-> None,
          model_dir |-> None, id |-> id]
    ELSE current

\* a call of app.core.recognition.get_recognition_service by the given caller
CallCoreAccessor(caller, model_path, model_dir) ==
    LET service == GetRecognitionService(
                      module_globals["_recognition_service"], model_path,
                      model_dir, instances + 1)
    IN /\ instances < MaxInstances
       /\ module_globals' =
             [module_globals EXCEPT !["_recognition_service"] = service]
       /\ instances' = IF service = module_globals["_recognition_service"]
                       THEN instances ELSE instances + 1
       /\ last_call' = [caller |-> caller, global |-> "_recognition_service",
                        model_path |-> model_path, model_dir |-> model_dir,
                        result |-> service]

\* use_ensemble.main up to the start of the application
UseEnsembleMain ==
    /\ ~patched
    /\ ~app_created
    /\ module_globals = [g \in ModuleGlobals |-> NoInstance]
    /\ LET ensemble_service ==
               GetEnsembleRecognitionService(
                  module_globals["_ensemble_instance"], instances + 1)
       IN /\ module_globals' =
                [module_globals EXCEPT !["_ensemble_instance"] = ensemble_service,
                                       !["_instance"] = ensemble_service]
          /\ instances' = instances + 1
    /\ patched' = TRUE
    /\ UNCHANGED <<app_created, last_call, fallback_vars, singleton,
                   constructions, pc, acc, obj, ret, np_random, ens_vars,
                   core_vars, services_vars, image_vars>>

\* create_app: the eager first call with the configured models directory
CreateApp ==
    /\ ~app_created
    /\ app_created' = TRUE
    /\ CallCoreAccessor("create_app", None, "models")
    /\ UNCHANGED <<patched, fallback_vars, singleton, constructions, pc, acc,
                   obj, ret, np_random, ens_vars, core_vars, services_vars,
                   image_vars>>

\* a handler of routes/recognition_routes.py: the name it imported from
\* app.core.recognition, called without arguments
RouteRequest ==
    /\ app_created
    /\ CallCoreAccessor("route", None, None)
    /\ UNCHANGED <<patched, app_created, fallback_vars, singleton,
                   constructions, pc, acc, obj, ret, np_random, ens_vars,
                   core_vars, services_vars, image_vars>>

\* any other caller of app.core.recognition.get_recognition_service
DirectCall(model_path, model_dir) ==
    /\ CallCoreAccessor("direct", model_path, model_dir)
    /\ UNCHANGED <<patched, app_created, fallback_vars, singleton,
                   constructions, pc, acc, obj, ret, np_random, ens_vars,
                   core_vars, services_vars, image_vars>>

\* a call of app.core.recognition_service.get_recognition_service, looked up
\* in the module at the time of the call
LegacyCall(model_path) ==
    LET service ==
          IF patched THEN module_globals["_ensemble_instance"]
          ELSE LegacyGetRecognitionService(module_globals["_instance"],
                                           model_path, instances + 1)
    IN /\ instances < MaxInstances
       /\ module_globals' = [module_globals EXCEPT !["_instance"] = service]
       /\ instances' = IF service = module_globals["_instance"]
                       THEN instances ELSE instances + 1
       /\ last_call' = [caller |-> "direct", global |-> "_instance",
                        model_path |-> model_path, model_dir |-> None,
                        result |-> service]
       /\ UNCHANGED <<patched, app_created, fallback_vars, singleton,
                      constructions, pc, acc, obj, ret, np_random, ens_vars,
                      core_vars, services_vars, image_vars>>

LazyStart ==
    /\ singleton = [a \in Accessors |-> 0]
    /\ constructions = [a \in Accessors |-> 0]
    /\ pc = [t \in Threads |-> "idle"]
    /\ acc = [t \in Threads |-> "load_model"]
    /\ obj = [t \in Threads |-> 0]
    /\ ret = [t \in Threads |-> 0]
    /\ fb_pc = [t \in Threads |-> "idle"]
    /\ fb_tensor = [t \in Threads |-> 1]
    /\ fb_result = [t \in Threads |-> <<>>]
    /\ module_globals = [g \in ModuleGlobals |-> NoInstance]
    /\ patched = FALSE
    /\ app_created = FALSE
    /\ last_call = NoAccess
    /\ instances = 0

\* =================== utils/image_utils.py ================================
\* largest x and y coordinate of a stroke point
MaxX == 2
MaxY == 1
\* most points of a stroke, most strokes of a drawing
MaxPoints == 2
MaxStrokes == 2
\* most points of a drawing
MaxTotalPoints == 3
\* width and height of the canvas: the target_size argument
TargetSize == 6
\* largest width and height of an image handed to the normalizer
MaxWidth == 7
MaxHeight == 5

Max(a, b) == IF a >= b THEN a ELSE b
Min(a, b) == IF a <= b THEN a ELSE b

SetMax(S) == CHOOSE m \in S : \A e \in S : e <= m
SetMin(S) == CHOOSE m \in S : \A e \in S : m <= e

\* pixel positions <<column, row>> of the canvas
Pixels == (0..(TargetSize - 1)) \X (0..(TargetSize - 1))

\* an array of floats: pixel p holds px[p] / den
ZeroTensor == [den |-> 1, px |-> [p \in Pixels |-> 0]]

NoTensor == [den |-> 0, px |-> [p \in Pixels |-> 0]]

\* normalize_image without its test for a single-valued array: 0 / 0
NormalizeImageDividing(img_array) ==
    LET lo == SetMin(Range(img_array))
        hi == SetMax(Range(img_array))
    IN [den |-> hi - lo, px |-> [p \in Pixels |-> img_array[p] - lo]]

\* normalize_image(img_array) with target_range (0, 1)
NormalizeImage(img_array) ==
    LET lo == SetMin(Range(img_array))
        hi == SetMax(Range(img_array))
    IN IF hi = lo THEN ZeroTensor
       ELSE [den |-> hi - lo, px |-> [p \in Pixels |-> img_array[p] - lo]]

Points == [x : 0..MaxX, y : 0..MaxY]

Strokes == UNION {[1..n -> Points] : n \in 0..MaxPoints}

RECURSIVE Concat(_)
Concat(ss) == IF ss = <<>> THEN <<>> ELSE Head(ss) \o Concat(Tail(ss))

Drawings ==
    {d \in UNION {[1..n -> Strokes] : n \in 0..MaxStrokes} :
        Len(Concat(d)) <= MaxTotalPoints}

\* max(d, 1e-8): a zero range is divided into zero offsets only, so any
\* positive divisor gives the same quotient
PositiveRange(d) == IF d > 0 THEN d ELSE 1

\* preprocess_stroke_data.normalize_point: the canvas point xn/xd, yn/yd
NormalizePoint(point, min_x, min_y, width_range, height_range) ==
    [xn |-> TargetSize * width_range + 8 * TargetSize * (point.x - min_x),
     xd |-> 10 * width_range,
     yn |-> TargetSize * height_range + 8 * TargetSize * (point.y - min_y),
     yd |-> 10 * height_range]

\* the canvas points of every stroke that is drawn (two points or more)
CanvasPoints(strokes) ==
    LET all_points == Concat(strokes)
        xs == {all_points[i].x : i \in DOMAIN all_points}
        ys == {all_points[i].y : i \in DOMAIN all_points}
        min_x == SetMin(xs)
        min_y == SetMin(ys)
        width_range == PositiveRange(SetMax(xs) - min_x)
        height_range == PositiveRange(SetMax(ys) - min_y)
        drawn == SelectSeq(strokes, LAMBDA stroke : Len(stroke) >= 2)
    IN [k \in DOMAIN drawn |->
          [i \in DOMAIN drawn[k] |->
             NormalizePoint(drawn[k][i], min_x, min_y,
                            width_range, height_range)]]

\* the pixel a canvas point falls in
PixelOf(xn, xd, yn, yd) == <<xn \div xd, yn \div yd>>

\* draw.line(a, b): the pixels under the two ends and the middle of the
\* segment
LinePixels(a, b) ==
    {PixelOf(a.xn, a.xd, a.yn, a.yd), PixelOf(b.xn, b.xd, b.yn, b.yd),
     PixelOf(a.xn + b.xn, 2 * a.xd, a.yn + b.yn, 2 * a.yd)}

\* every pixel the drawn strokes colour
InkPixels(points) ==
    UNION {UNION {LinePixels(points[k][i], points[k][i + 1]) :
                     i \in 1..(Len(points[k]) - 1)} : k \in DOMAIN points}

\* preprocess_stroke_data(strokes, invert=...): the array it returns
StrokeTensor(strokes, invert) ==
    LET all_points == Concat(strokes)
        ink == IF all_points = <<>> THEN {}
               ELSE InkPixels(CanvasPoints(strokes))
        img == [p \in Pixels |-> IF p \in ink THEN 0 ELSE 255]
        img_array == IF invert THEN [p \in Pixels |-> 255 - img[p]] ELSE img
    IN NormalizeImage(img_array)

\* gray levels of a single-valued 8-bit image
GrayValues == {0, 1, 128, 255}

\* an 8-bit image: single-valued with the given gray level, or a sketch
ImageInputs ==
    {i \in [uniform : BOOLEAN, gray : GrayValues] : ~i.uniform => i.gray = 255}

\* a rectangle of ones on zeros: columns x1..x2, rows y1..y2
RectTensor(x1, y1, x2, y2) ==
    [den |-> 1,
     px |-> [p \in Pixels |->
               IF p[1] >= x1 /\ p[1] <= x2 /\ p[2] >= y1 /\ p[2] <= y2
               THEN 1 ELSE 0]]

\* what threshold, contours, crop and resize (cv2) leave of a sketch: zeros
\* and ones
ContentTensors ==
    {ZeroTensor, RectTensor(0, 0, TargetSize - 1, TargetSize - 1),
     RectTensor(1, 1, TargetSize - 2, TargetSize - 2),
     RectTensor(0, 2, TargetSize - 1, 3)}

\* a W x H image and the bounding rectangle cv2.boundingRect finds in it
BoundingBoxes ==
    {b \in [W : 1..MaxWidth, H : 1..MaxHeight, x : 0..(MaxWidth - 1),
            y : 0..(MaxHeight - 1), w : 1..MaxWidth, h : 1..MaxHeight] :
        b.x + b.w <= b.W /\ b.y + b.h <= b.H}

\* the bounding rectangles of a target-sized array
TensorBoxes ==
    {b \in [W : {TargetSize}, H : {TargetSize}, x : 0..(TargetSize - 1),
            y : 0..(TargetSize - 1), w : 1..TargetSize, h : 1..TargetSize] :
        b.x + b.w <= b.W /\ b.y + b.h <= b.H}

NoBox == [W |-> 0, H |-> 0, x |-> 0, y |-> 0, w |-> 0, h |-> 0]

\* step 4 without the clamp to the image
CropRegionUnclamped(b) ==
    LET padding_x == b.w \div 5
        padding_y == b.h \div 5
    IN [x1 |-> b.x - padding_x, y1 |-> b.y - padding_y,
        x2 |-> b.x + b.w + padding_x, y2 |-> b.y + b.h + padding_y]

\* steps 4 and 5: int(w * 0.2) of padding on each side, clamped to the image
CropRegion(b) ==
    LET padding_x == b.w \div 5
        padding_y == b.h \div 5
    IN [x1 |-> Max(0, b.x - padding_x), y1 |-> Max(0, b.y - padding_y),
        x2 |-> Min(b.W, b.x + b.w + padding_x),
        y2 |-> Min(b.H, b.y + b.h + padding_y)]

\* step 6: new_width, new_height, paste_x, paste_y for a crop of the given
\* width and height (int() of the exact quotient)
AspectFit(width, height) ==
    LET new_width == IF width > height THEN TargetSize
                     ELSE (TargetSize * width) \div height
        new_height == IF width > height THEN (TargetSize * height) \div width
                      ELSE TargetSize
    IN [new_width |-> new_width, new_height |-> new_height,
        paste_x |-> (TargetSize - new_width) \div 2,
        paste_y |-> (TargetSize - new_height) \div 2]

\* the bounding box, the crop region and the fit of one normalizer call
Geometry(b) ==
    LET c == CropRegion(b)
    IN [box |-> b, crop |-> c, fit |-> AspectFit(c.x2 - c.x1, c.y2 - c.y1)]

NoGeometry ==
    [box |-> NoBox, crop |-> [x1 |-> 0, y1 |-> 0, x2 |-> 0, y2 |-> 0],
     fit |-> [new_width |-> 0, new_height |-> 0, paste_x |-> 0,
              paste_y |-> 0]]

\* cv2.resize rejects an empty destination size
ResizeRaises(g) == g.fit.new_width = 0 \/ g.fit.new_height = 0

\* the pixels 'padded[paste_y:paste_y+new_height, paste_x:paste_x+new_width]'
PasteRectangle(g) ==
    {p \in Pixels :
        /\ p[1] >= g.fit.paste_x /\ p[1] < g.fit.paste_x + g.fit.new_width
        /\ p[2] >= g.fit.paste_y /\ p[2] < g.fit.paste_y + g.fit.new_height}

\* the resized crop is pasted inside the paste rectangle, the rest is zero
Pasted(content, g) ==
    \A p \in Pixels : content.px[p] # 0 => p \in PasteRectangle(g)

\* every pixel of the array holds the same value
IsUniform(tensor) == \A p, q \in Pixels : tensor.px[p] = tensor.px[q]

\* enhanced_preprocess_image: a single-valued image reaches
\* 'binary = img_uint8' with img_uint8 never assigned
EnhancedRaises(image) == image.uniform

\* a single-valued array of the value num / den
UniformTensor(num, den) == [den |-> den, px |-> [p \in Pixels |-> num]]

\* _basic_preprocess_image on a single-valued 8-bit image
BasicPreprocessImage(image) ==
    LET den == IF image.gray > 1 THEN 255 ELSE 1
        num == image.gray
    IN IF 2 * num > den THEN UniformTensor(den - num, den)
                        ELSE UniformTensor(num, den)

\* (image * 255).astype(uint8) if image.max() <= 1 else image.astype(uint8)
GrayOf(tensor) ==
    IF \A p \in Pixels : tensor.px[p] <= tensor.den
    THEN [p \in Pixels |-> (tensor.px[p] * 255) \div tensor.den]
    ELSE [p \in Pixels |-> (tensor.px[p] \div tensor.den) % 256]

\* img_array < 240
Sketch(gray) == {p \in Pixels : gray[p] < 240}

\* the set is a filled rectangle of pixels
IsRectangle(D) ==
    /\ D # {}
    /\ LET xs == {p[1] : p \in D}
           ys == {p[2] : p \in D}
       IN D = (SetMin(xs)..SetMax(xs)) \X (SetMin(ys)..SetMax(ys))

\* detect_shape_type: from the contour of a filled rectangle (it runs through
\* the centres of the border pixels); for other pixel sets the contour
\* geometry is cv2's, given as found
DetectShapeType(gray, found) ==
    LET D == Sketch(gray)
    IN IF D = {} THEN "no_shape"
       ELSE IF ~IsRectangle(D) THEN found
       ELSE LET w == Cardinality({p[1] : p \in D})
                h == Cardinality({p[2] : p \in D})
                area == (w - 1) * (h - 1)
                perimeter == 2 * ((w - 1) + (h - 1))
            IN IF area < 10 THEN "no_shape"
               ELSE IF 40 * 355 * area > 7 * 113 * perimeter * perimeter
                    THEN "circular"
               ELSE IF 10 * area > 7 * w * h THEN "rectangular"
               ELSE "irregular"

\* the sum of coordinate k over the pixels of D
RECURSIVE CoordinateSum(_, _)
CoordinateSum(D, k) ==
    IF D = {} THEN 0
    ELSE LET p == CHOOSE q \in D : TRUE
         IN p[k] + CoordinateSum(D \ {p}, k)

\* calculate_centroid: (y_center, x_center), the centre when nothing is dark
CalculateCentroid(gray) ==
    LET D == Sketch(gray)
        n == Cardinality(D)
    IN IF n = 0 THEN [cy_num |-> 1, cy_den |-> 2, cx_num |-> 1, cx_den |-> 2]
       ELSE [cy_num |-> CoordinateSum(D, 2), cy_den |-> n * TargetSize,
             cx_num |-> CoordinateSum(D, 1), cx_den |-> n * TargetSize]

\* analyze_image_content: coverage, centroid and shape_type
AnalyzeImageContent(tensor, found) ==
    LET gray == GrayOf(tensor)
    IN [coverage_num |-> Cardinality(Sketch(gray)),
        coverage_den |-> TargetSize * TargetSize,
        centroid |-> CalculateCentroid(gray),
        shape_type |-> DetectShapeType(gray, found)]

NoFeatures ==
    [coverage_num |-> 0, coverage_den |-> 0,
     centroid |-> [cy_num |-> 0, cy_den |-> 0, cx_num |-> 0, cx_den |-> 0],
     shape_type |-> None]

NoImageInput ==
    [kind |-> None, strokes |-> <<>>, invert |-> FALSE,
     image |-> [uniform |-> FALSE, gray |-> 255], tensor |-> NoTensor]

\* preprocess_stroke_data(strokes, invert=invert)
PreprocessStrokeData(strokes, invert) ==
    /\ img_input = NoImageInput
    /\ img_input' = [NoImageInput EXCEPT !.kind = "strokes",
                                        !.strokes = strokes,
                                        !.invert = invert]
    /\ img_points' = IF Concat(strokes) = <<>> THEN <<>>
                     ELSE CanvasPoints(strokes)
    /\ img_tensor' = StrokeTensor(strokes, invert)
    /\ img_raised' = FALSE
    /\ UNCHANGED <<img_features, img_geometry, ens_vars, core_vars,
                   services_vars, lazy_vars, np_random>>

\* enhanced_preprocess_image(image)
EnhancedPreprocessImage(image, box, content) ==
    /\ img_input = NoImageInput
    /\ img_input' = [NoImageInput EXCEPT !.kind = "enhanced",
                                        !.image = image]
    /\ IF EnhancedRaises(image)
       THEN /\ content = ZeroTensor
            /\ box = NoBox
            /\ img_geometry' = NoGeometry
            /\ img_raised' = TRUE
            /\ img_tensor' = NoTensor
       ELSE /\ box \in BoundingBoxes
            /\ img_geometry' = Geometry(box)
            /\ IF ResizeRaises(Geometry(box))
               THEN /\ content = ZeroTensor
                    /\ img_raised' = TRUE
                    /\ img_tensor' = NoTensor
               ELSE /\ Pasted(content, Geometry(box))
                    /\ img_raised' = FALSE
                    /\ img_tensor' = content
    /\ UNCHANGED <<img_points, img_features, ens_vars, core_vars,
                   services_vars, lazy_vars, np_random>>

\* enhanced_preprocess_image(tensor) on an array the normalizer returned
RenormalizeImage(tensor, box, content) ==
    /\ img_input = NoImageInput
    /\ img_input' = [NoImageInput EXCEPT !.kind = "normalized",
                                        !.tensor = tensor]
    /\ IF IsUniform(tensor)
       THEN /\ content = ZeroTensor
            /\ box = NoBox
            /\ img_geometry' = NoGeometry
            /\ img_raised' = TRUE
            /\ img_tensor' = NoTensor
       ELSE /\ box \in TensorBoxes
            /\ img_geometry' = Geometry(box)
            /\ IF ResizeRaises(Geometry(box))
               THEN /\ content = ZeroTensor
                    /\ img_raised' = TRUE
                    /\ img_tensor' = NoTensor
               ELSE /\ Pasted(content, Geometry(box))
                    /\ img_raised' = FALSE
                    /\ img_tensor' = content
    /\ UNCHANGED <<img_points, img_features, ens_vars, core_vars,
                   services_vars, lazy_vars, np_random>>

\* SketchRecognitionService.preprocess_image of core/recognition.py: the
\* enhanced pipeline, and the basic one when that raises
PreprocessImage(image, box, content) ==
    /\ img_input = NoImageInput
    /\ img_input' = [NoImageInput EXCEPT !.kind = "preprocess_image",
                                        !.image = image]
    /\ IF EnhancedRaises(image)
       THEN /\ content = ZeroTensor
            /\ box = NoBox
            /\ img_geometry' = NoGeometry
            /\ img_tensor' = BasicPreprocessImage(image)
       ELSE /\ box \in BoundingBoxes
            /\ img_geometry' = Geometry(box)
            /\ ~ResizeRaises(Geometry(box)) => Pasted(content, Geometry(box))
            /\ img_tensor' = content
    /\ img_raised' = FALSE
    /\ UNCHANGED <<img_points, img_features, ens_vars, core_vars,
                   services_vars, lazy_vars, np_random>>

\* analyze_image_content(tensor) on the array the last call returned
AnalyzeImage(found) ==
    /\ img_input # NoImageInput
    /\ ~img_raised
    /\ img_features = NoFeatures
    /\ IsRectangle(Sketch(GrayOf(img_tensor))) \/ Sketch(GrayOf(img_tensor)) = {}
          => found = "irregular"
    /\ img_features' = AnalyzeImageContent(img_tensor, found)
    /\ UNCHANGED <<img_input, img_points, img_tensor, img_raised,
                   img_geometry, ens_vars, core_vars, services_vars,
                   lazy_vars, np_random>>

\* the caller is done with the arrays
ImageReturn ==
    /\ img_input # NoImageInput
    /\ img_input' = NoImageInput
    /\ img_points' = <<>>
    /\ img_tensor' = NoTensor
    /\ img_raised' = FALSE
    /\ img_features' = NoFeatures
    /\ img_geometry' = NoGeometry
    /\ UNCHANGED <<ens_vars, core_vars, services_vars, lazy_vars, np_random>>

ImageStart ==
    /\ img_input = NoImageInput
    /\ img_points = <<>>
    /\ img_tensor = NoTensor
    /\ img_raised = FALSE
    /\ img_features = NoFeatures
    /\ img_geometry = NoGeometry

\* the ensemble seeds the generator before every draw, so the state the
\* process starts with is never read here
InitEnsemble ==
    /\ EnsembleStart
    /\ CoreStart
    /\ ServicesStart
    /\ LazyStart
    /\ ImageStart
    /\ np_random = 0

NextEnsemble ==
    \/ EnsembleReturn
    \/ \E fs, fg \in LoadOutcomes : EnsembleInit(fs, fg)
    \/ /\ ens_info = NoInfo
       /\ ens_constructed
       /\ ens_request = NoRequest
       /\ \E input \in EnsembleInputs :
            \E calls \in [Range(BackendNames) -> BackendCalls] :
               EnsembleRecognizeSketch(input, calls)
    \/ EnsembleGetModelInfo
    \/ EnsembleInfoReturn

SpecEnsemble == InitEnsemble /\ [][NextEnsemble]_vars

\* the generator's state is read here only to fill the tensor handed to the
\* model after a preprocessing failure
InitCore ==
    /\ CoreStart
    /\ EnsembleStart
    /\ ServicesStart
    /\ LazyStart
    /\ ImageStart
    /\ np_random = 0

NextCore ==
    \/ \E outcome \in CoreLoadOutcomes, class_names \in CoreVocabularies,
          top_k \in TopKValues :
          /\ outcome # "metadata" => class_names = <<"apple">>
          /\ CoreInit(outcome, class_names, top_k)
    \/ /\ core_info = CoreNoInfo
       /\ core_constructed
       /\ core_request = CoreNoRequest
       /\ \E input \in CoreInputs, call \in CoreModelCalls :
             CorePredict(input, call)
    \/ CoreReturn
    \/ CoreGetModelInfo
    \/ CoreInfoReturn

SpecCore == InitCore /\ [][NextCore]_vars

\* numpy's generator starts from operating-system entropy
InitServices ==
    /\ services_model = FALSE
    /\ services_class_names = <<>>
    /\ model_files \in ModelFiles
    /\ sketch_request = NoSketch
    /\ sketch_response = NoResponse
    /\ svc_constructed = FALSE
    /\ svc_model_loaded = FALSE
    /\ svc_metadata = FALSE
    /\ svc_class_names = <<>>
    /\ svc_top_k = 5
    /\ svc_request = NoServicesRequest
    /\ svc_response = NoResponse
    /\ np_random \in 0..(RngStates - 1)
    /\ EnsembleStart
    /\ CoreStart
    /\ LazyStart
    /\ ImageStart

NextServices ==
    \/ \E input \in SketchInputs, call \in ModelCalls :
          PredictSketch(input, call)
    \/ DownloadModel
    \/ \E outcome \in ServicesLoadOutcomes, class_names \in CoreVocabularies,
          top_k \in TopKValues :
          /\ outcome # "metadata" => class_names = <<"apple">>
          /\ ServicesInit(outcome, class_names, top_k)
    \/ \E kind \in ServicesInputKinds, call \in ModelCalls :
          ServicesPredict(kind, call)
    \/ ServicesReturn

SpecServices == InitServices /\ [][NextServices]_vars

InitLazy ==
    /\ LazyStart
    /\ ImageStart
    /\ EnsembleStart
    /\ CoreStart
    /\ ServicesStart
    /\ np_random = 0

NextLazy ==
    \/ \E t \in Threads, a \in Accessors : LazyCheck(t, a)
    \/ \E t \in Threads, ok \in BOOLEAN : LazyConstruct(t, ok)
    \/ \E t \in Threads : LazyAssign(t)
    \/ \E t \in Threads : LazyReturn(t)
    \/ \E t \in Threads : LazyFinish(t)

SpecLazy == InitLazy /\ [][NextLazy]_vars

\* threads in _predict_fallback; the generator starts from entropy
InitFallback ==
    /\ LazyStart
    /\ ImageStart
    /\ EnsembleStart
    /\ CoreStart
    /\ ServicesStart
    /\ np_random \in 0..(RngStates - 1)

NextFallback ==
    \/ \E t \in Threads, tensor \in Tensors : FallbackSeed(t, tensor)
    \/ \E t \in Threads : FallbackDraw(t)
    \/ \E t \in Threads : FallbackFinish(t)

SpecFallback == InitFallback /\ [][NextFallback]_vars

\* one process from its start: the swap, the application, accessor calls
InitProcess ==
    /\ LazyStart
    /\ ImageStart
    /\ EnsembleStart
    /\ CoreStart
    /\ ServicesStart
    /\ np_random = 0

NextProcess ==
    \/ UseEnsembleMain
    \/ CreateApp
    \/ RouteRequest
    \/ \E model_path \in ModelPaths, model_dir \in ModelDirs :
          DirectCall(model_path, model_dir)
    \/ \E model_path \in ModelPaths : LegacyCall(model_path)

SpecProcess == InitProcess /\ [][NextProcess]_vars

InitImage ==
    /\ ImageStart
    /\ EnsembleStart
    /\ CoreStart
    /\ ServicesStart
    /\ LazyStart
    /\ np_random = 0

NextImage ==
    \/ /\ img_input = NoImageInput
       /\ \E strokes \in Drawings, invert \in BOOLEAN :
             PreprocessStrokeData(strokes, invert)
    \/ /\ img_input = NoImageInput
       /\ \E image \in ImageInputs, box \in BoundingBoxes \cup {NoBox},
             content \in ContentTensors :
             EnhancedPreprocessImage(image, box, content)
    \/ /\ img_input = NoImageInput
       /\ \E image \in ImageInputs, box \in BoundingBoxes \cup {NoBox},
             content \in ContentTensors :
             PreprocessImage(image, box, content)
    \/ /\ img_input = NoImageInput
       /\ \E tensor \in ContentTensors, box \in TensorBoxes \cup {NoBox},
             content \in ContentTensors :
             RenormalizeImage(tensor, box, content)
    \/ \E found \in ShapeTypes : AnalyzeImage(found)
    \/ ImageReturn

SpecImage == InitImage /\ [][NextImage]_vars

\* ------------------------------------------------ claims on the ensemble
\* the last recognize_sketch call got past preprocessing with models loaded
EnsembleCombined ==
    /\ ens_request # NoRequest
    /\ ~PreprocessRaises(ens_request.input.kind)
    /\ ens_model_loaded

\* backend b produced a score for label l in the last call
Scored(b, l) ==
    /\ b \in Range(ens_models)
    /\ ens_metadata[b].present
    /\ ~ens_request.calls[b].raises
    /\ \E i \in DOMAIN ens_metadata[b].class_names :
          /\ ens_metadata[b].class_names[i] = l
          /\ i \in DOMAIN ens_request.calls[b].output

\* the score backend b gave label l, as recognize_sketch reports it
ScoreOf(b, l) ==
    LET i == CHOOSE i \in DOMAIN ens_metadata[b].class_names :
                ens_metadata[b].class_names[i] = l
    IN ens_request.calls[b].output[i] * Percent

\* the confidences the response holds for label l
ReportedFor(l) ==
    {ens_response.top_predictions[k].num :
        k \in {k \in DOMAIN ens_response.top_predictions :
                  ens_response.top_predictions[k].class = l}}

\* backend b contributed nothing in the last call
Failed(b) ==
    b \in Range(ens_models)
    /\ (ens_request.calls[b].raises \/ ~ens_metadata[b].present)

\* C1: every recognize/predict call returns a non-empty top_predictions
\* list, whatever the input and whatever the backends do
C1_NonEmptyPredictions ==
    ens_request # NoRequest => ens_response.top_predictions # <<>>

\* C4: a label of both vocabularies that the specialized backend scored is
\* reported with exactly the specialized backend's confidence, whatever the
\* general backend scored
C4_SpecializedWins ==
    EnsembleCombined =>
      \A l \in Labels :
         (/\ l \in Range(ens_metadata["specialized"].class_names)
          /\ l \in Range(ens_metadata["general"].class_names)
          /\ Scored("specialized", l))
         => /\ ReportedFor(l) \subseteq {ScoreOf("specialized", l)}
            /\ Len(ens_response.top_predictions) < EnsembleTopN
                  => ReportedFor(l) # {}

C4_Witness ==
    /\ EnsembleCombined
    /\ \E l \in Labels :
          /\ Scored("specialized", l)
          /\ Scored("general", l)
          /\ ScoreOf("general", l) > ScoreOf("specialized", l)
          /\ ReportedFor(l) = {ScoreOf("specialized", l)}

\* C5: a label some backend scored while its preferred backend did not is
\* reported with the largest confidence the scoring backends offered
C5_MaxWhenPreferredSilent ==
    EnsembleCombined =>
      \A l \in Labels :
         LET scorers == {b \in Range(BackendNames) : Scored(b, l)}
         IN (scorers # {} /\ category_model_map[l] \notin scorers)
            => /\ ReportedFor(l) \subseteq
                    {ScoreOf(b, l) : b \in
                       {b \in scorers :
                          \A o \in scorers : ScoreOf(o, l) <= ScoreOf(b, l)}}
               /\ Len(ens_response.top_predictions) < EnsembleTopN
                     => ReportedFor(l) # {}

C5_Witness ==
    /\ EnsembleCombined
    /\ \E l \in Labels :
          /\ category_model_map[l] = "specialized"
          /\ ens_request.calls["specialized"].raises
          /\ Scored("general", l)
          /\ ReportedFor(l) = {ScoreOf("general", l)}

\* C6: a backend whose inference raises or whose metadata is missing
\* contributes nothing, and the result is exactly what the other backend's
\* candidates give
C6_FailedBackendIsEmpty ==
    EnsembleCombined =>
      \A b \in Range(BackendNames) :
         Failed(b) =>
            LET others == {o \in Range(BackendNames) : o # b /\ ~Failed(o)}
                kept == UNION {{<<l, ScoreOf(o, l)>> :
                                  l \in {l \in Labels : Scored(o, l)}} :
                               o \in others}
            IN /\ {<<p.class, p.num>> :
                     p \in Range(ens_response.top_predictions)} = kept
               /\ Len(ens_response.top_predictions) = Cardinality(kept)

C6_Witness ==
    /\ EnsembleCombined
    /\ Failed("specialized")
    /\ ~Failed("general")
    /\ "general" \in Range(ens_models)
    /\ ens_response.top_predictions # <<>>


C2_CoreErrorCandidateIsOne ==
    core_request # CoreNoRequest =>
       /\ ~core_response.raised
       /\ (core_request.input.kind = "array_error") <=> ~core_response.success
       /\ ~core_response.success =>
             /\ Len(core_response.top_predictions) = 1
             /\ core_response.top_predictions[1].class = "error"
             /\ core_response.top_predictions[1].num
                   = core_response.top_predictions[1].den

\* C3: on every path the returned confidences are non-negative and sum
\* to 1.0
C3_ConfidencesSumToOne ==
    core_request # CoreNoRequest =>
       LET preds == core_response.top_predictions
       IN /\ \A k \in DOMAIN preds : preds[k].num >= 0 /\ preds[k].den > 0
          /\ \A k \in DOMAIN preds : preds[k].den = preds[1].den
          /\ preds # <<>> =>
                SeqSum([k \in DOMAIN preds |-> preds[k].num]) = preds[1].den

\* the fallback and error paths of predict do return confidences summing
\* to 1.0
C3_FallbackSumsToOne ==
    (core_request # CoreNoRequest
     /\ ~CoreModelAnswers(core_model, core_class_names,
                          core_request.input, core_request.model)) =>
       LET preds == core_response.top_predictions
       IN /\ preds # <<>>
          /\ \A k \in DOMAIN preds : preds[k].num >= 0
                                     /\ preds[k].den = preds[1].den
          /\ SeqSum([k \in DOMAIN preds |-> preds[k].num]) = preds[1].den

\* the last predict call went to the feature table
CoreFallbackReached ==
    /\ core_request # CoreNoRequest
    /\ core_request.input.kind # "array_error"
    /\ \/ ~core_model
       \/ core_request.input.kind = "unsupported_type"
       \/ core_request.model.raises
       \/ core_request.model.output = <<>>
       \/ \A i \in DOMAIN core_request.model.output :
             core_request.model.output[i] >= 0 => i > Len(core_class_names)

\* C9: the feature table answers every shape type, coverage and centroid
\* with a non-empty list, and the call returns
C9_FallbackTotal ==
    CoreFallbackReached =>
       /\ core_table # <<>>
       /\ ~core_response.raised
       /\ core_response.success

C9_Witness ==
    /\ CoreFallbackReached
    /\ core_request.input.kind = "tensor"
    /\ core_request.input.features.shape_type = "no_shape"
    /\ core_request.input.features.coverage = 100
    /\ core_table # <<>>

\* the last predict call of services/recognition.py had a model whose
\* inference raised or left no candidate inside the vocabulary
ServicesInferenceFailed ==
    /\ svc_request # NoServicesRequest
    /\ svc_model_loaded
    /\ svc_request.kind # "canvas_error"
    /\ \/ svc_request.call.raises
       \/ ServicesModelResults(svc_class_names, svc_top_k,
                               svc_request.call.output) = <<>>

\* C7: when inference raises or leaves no candidate of the vocabulary, the
\* service answers from the fallback predictor and reports success=true
C7_FallbackOnInferenceFailure ==
    ServicesInferenceFailed =>
       /\ svc_response.success
       /\ svc_response.top_predictions # <<>>

\* predict of core/recognition.py does so: with a model whose inference
\* raised, returned nothing or nothing of the vocabulary, the answer is the
\* fallback's and success is true
C7_CoreFallsBack ==
    (/\ core_request # CoreNoRequest
     /\ core_request.input.kind # "array_error"
     /\ core_model
     /\ \/ core_request.model.raises
        \/ CoreModelResults(core_class_names, core_request.model.output)
              = <<>>) =>
       /\ core_response.success
       /\ core_table # <<>>
       /\ core_response.top_predictions
             = CoreFallback(core_class_names, core_top_k, core_request.input)

\* C8: under concurrent first calls every accessor constructs at most one
\* instance, and all callers get the same one
C8_LoadsAtMostOnce ==
    /\ \A a \in Accessors : constructions[a] <= 1
    /\ \A t, u \in Threads :
          (/\ pc[t] = "done" /\ pc[u] = "done"
           /\ acc[t] = acc[u]
           /\ ret[t] # 0 /\ ret[u] # 0) => ret[t] = ret[u]

\* C10: with no usable model, a repeated predict_sketch call on the same
\* input returns the same candidates
C10_FallbackDeterministic ==
    [][(/\ sketch_request # NoSketch
        /\ ~services_model'
        /\ sketch_request'.input = sketch_request.input)
       => sketch_response' = sketch_response]_vars

\* C11: every prediction list predict returns holds each label at most once,
\* whatever the vocabulary and top_k
C11_LabelsUnique ==
    core_request # CoreNoRequest =>
       \A j, k \in DOMAIN core_response.top_predictions :
          core_response.top_predictions[j].class
             = core_response.top_predictions[k].class => j = k

\* C12: a predict call on unparsable input (a canvas dict whose image or
\* strokes cannot be decoded, or that holds neither) returns success=false
C12_UnparsableInputFails ==
    (core_request # CoreNoRequest
     /\ core_request.input.kind = "canvas_error") => ~core_response.success

\* C13: a service whose model loaded while its metadata file is missing has
\* a vocabulary that is not empty
C13_DefaultVocabulary ==
    (svc_constructed /\ svc_model_loaded /\ ~svc_metadata) =>
       svc_class_names # <<>>

\* core/recognition.py in the same situation holds QUICKDRAW_CLASSES
C13_CoreDefaultVocabulary ==
    (core_constructed /\ core_model /\ ~core_metadata) =>
       core_class_names = QUICKDRAW_CLASSES

\* the last call rasterized a drawing in which no stroke has two points
BlankDrawing ==
    /\ img_input.kind = "strokes"
    /\ \A k \in DOMAIN img_input.strokes : Len(img_input.strokes[k]) < 2

\* C14: rasterizing a drawing whose strokes all have fewer than two points
\* does not raise and returns the all-zero array
C14_BlankDrawingIsBackground ==
    BlankDrawing => ~img_raised /\ img_tensor = ZeroTensor

C14_Witness ==
    /\ BlankDrawing
    /\ Len(img_input.strokes) = 2
    /\ Len(img_input.strokes[1]) = 1
    /\ Len(img_input.strokes[2]) = 0
    /\ img_tensor = ZeroTensor

\* C15: the normalizer returns the all-zero array, without raising, for a
\* single-valued image
C15_UniformImageGivesZeroTensor ==
    (img_input.kind = "enhanced" /\ img_input.image.uniform) =>
       ~img_raised /\ img_tensor = ZeroTensor

\* C16: features of an array without ink (every pixel 0) have coverage 0.0
\* and shape_type "no_shape"
C16_NoInkMeansNoCoverage ==
    (img_features # NoFeatures /\ \A p \in Pixels : img_tensor.px[p] = 0) =>
       /\ img_features.coverage_num = 0
       /\ img_features.shape_type = "no_shape"

\* C17: between any two drawn points the ratio of x-distance to y-distance
\* on the canvas is that of the source coordinates
C17_CommonScale ==
    img_input.kind = "strokes" =>
       LET drawn == SelectSeq(img_input.strokes,
                              LAMBDA stroke : Len(stroke) >= 2)
       IN \A k, l \in DOMAIN img_points :
             \A i \in DOMAIN img_points[k], j \in DOMAIN img_points[l] :
                LET a == img_points[k][i]
                    b == img_points[l][j]
                IN (a.xn - b.xn) * a.yd * (drawn[k][i].y - drawn[l][j].y)
                      = (a.yn - b.yn) * a.xd * (drawn[k][i].x - drawn[l][j].x)

\* the predictions the last predict call chose: the model's results, or the
\* feature table's list
CoreChosen ==
    IF CoreModelAnswers(core_model, core_class_names, core_request.input,
                        core_request.model)
    THEN CoreModelResults(core_class_names, core_request.model.output)
    ELSE IF core_table = <<>>
         THEN <<P("unknown", 75), P("drawing", 25)>> ELSE core_table

\* vocabulary names that are not among the chosen labels
CoreFurtherLabels ==
    {c \in Range(core_class_names) :
        \A k \in DOMAIN CoreChosen : CoreChosen[k].class # c}

\* C18: when the chosen predictions are fewer than top_k and the vocabulary
\* holds enough further labels, the result has exactly top_k entries, on the
\* model path and on the fallback path
C18_PaddedToTopK ==
    (/\ core_request # CoreNoRequest
     /\ core_response.success
     /\ Len(CoreChosen) < core_top_k
     /\ Cardinality(CoreFurtherLabels) >= core_top_k - Len(CoreChosen)) =>
       Len(core_response.top_predictions) = core_top_k

\* the fallback path does pad to top_k
C18_FallbackPaddedToTopK ==
    (/\ core_request # CoreNoRequest
     /\ core_response.success
     /\ ~CoreModelAnswers(core_model, core_class_names, core_request.input,
                          core_request.model)
     /\ Len(CoreChosen) < core_top_k
     /\ Cardinality(CoreFurtherLabels) >= core_top_k - Len(CoreChosen)) =>
       Len(core_response.top_predictions) = core_top_k

\* the position at which label l first entered all_predictions in the last
\* call (backends in the order of self.models, each one's candidates in order)
FirstSeen(l) ==
    LET all_predictions == AllPredictions(ens_models, ens_metadata, ens_models,
                                          ens_request.calls)
    IN CHOOSE i \in DOMAIN all_predictions :
          /\ all_predictions[i].class = l
          /\ \A j \in 1..(i - 1) : all_predictions[j].class # l

\* C19: the combined result is ordered by confidence descending, and two
\* labels of equal confidence appear in the order in which they were first
\* seen
C19_SortedStable ==
    (EnsembleCombined /\ ens_models # <<>>) =>
       \A i, j \in DOMAIN ens_response.top_predictions :
          i < j =>
             LET a == ens_response.top_predictions[i]
                 b == ens_response.top_predictions[j]
             IN /\ a.num >= b.num
                /\ a.num = b.num => FirstSeen(a.class) < FirstSeen(b.class)

C19_Witness ==
    /\ EnsembleCombined
    /\ ens_models = BackendNames
    /\ Len(ens_response.top_predictions) >= 3
    /\ \E i, j \in DOMAIN ens_response.top_predictions :
          /\ i < j
          /\ ens_response.top_predictions[i].num
                = ens_response.top_predictions[j].num
          /\ Scored("specialized", ens_response.top_predictions[i].class)
          /\ ~Scored("specialized", ens_response.top_predictions[j].class)
          /\ Scored("general", ens_response.top_predictions[j].class)
    /\ \E i, j \in DOMAIN ens_response.top_predictions :
          ens_response.top_predictions[i].num
             > ens_response.top_predictions[j].num

\* C20: once a service is constructed, no predict, recognize_sketch or
\* get_model_info call changes its model, its vocabulary (class_names,
\* metadata), its model_loaded flag, its top_k or its map from labels to
\* preferred backends
C20_ServiceStateUnchanged ==
    [][/\ ens_constructed =>
             UNCHANGED <<ens_models, ens_metadata, ens_model_loaded,
                         category_model_map>>
       /\ core_constructed =>
             UNCHANGED <<core_model, core_class_names, core_metadata,
                         core_model_loaded, core_top_k>>]_vars

\* a loaded ensemble has answered a recognition call in which a backend
\* raised
C20_Witness ==
    /\ ens_constructed
    /\ ens_model_loaded
    /\ ens_models = BackendNames
    /\ ens_request # NoRequest
    /\ ens_response.success
    /\ ens_request.calls["general"].raises

\* get_model_info has answered for a loaded ensemble
C20_InfoReturned ==
    /\ ens_constructed
    /\ ens_model_loaded
    /\ ens_info.status = "loaded"

\* tensors a and b differ by less than a hundredth in every pixel
WithinTolerance(a, b) ==
    \A p \in Pixels :
       LET d == a.px[p] * b.den - b.px[p] * a.den
       IN (IF d < 0 THEN -d ELSE d) * 100 < a.den * b.den

\* C21: the normalizer applied to a tensor the normalizer returned gives a
\* tensor that differs from its input by less than the tolerance in every
\* pixel
C21_NormalizeIdempotent ==
    img_input.kind = "normalized" =>
       /\ ~img_raised
       /\ WithinTolerance(img_tensor, img_input.tensor)

\* the all-zero tensor, which the normalizer returns for a low-contrast
\* image, is normalized again without an exception
C21_ZeroTensorRenormalizes ==
    (img_input.kind = "normalized" /\ img_input.tensor = ZeroTensor) =>
       ~img_raised

\* C22: for every crop of width and height at least 1, the resized width and
\* height are at least 1 and at most the target size, the longer side equals
\* the target size, and the centered paste rectangle lies inside the canvas
C22_AspectFitInsideTarget ==
    LET c == img_geometry.crop
        f == img_geometry.fit
    IN (img_geometry # NoGeometry /\ c.x2 - c.x1 >= 1 /\ c.y2 - c.y1 >= 1) =>
          /\ f.new_width >= 1 /\ f.new_width <= TargetSize
          /\ f.new_height >= 1 /\ f.new_height <= TargetSize
          /\ Max(f.new_width, f.new_height) = TargetSize
          /\ f.paste_x >= 0 /\ f.paste_x + f.new_width <= TargetSize
          /\ f.paste_y >= 0 /\ f.paste_y + f.new_height <= TargetSize

\* the fit never exceeds the target and pastes inside the canvas
C22_FitNeverExceedsTarget ==
    LET f == img_geometry.fit
    IN img_geometry # NoGeometry =>
          /\ f.new_width <= TargetSize /\ f.new_height <= TargetSize
          /\ Max(f.new_width, f.new_height) = TargetSize
          /\ f.paste_x >= 0 /\ f.paste_x + f.new_width <= TargetSize
          /\ f.paste_y >= 0 /\ f.paste_y + f.new_height <= TargetSize

\* C23: the crop region is the bounding box expanded by at most 20% of its
\* width and height on each side, clamped to the image: 0 <= x1 < x2 <= W,
\* 0 <= y1 < y2 <= H, and the crop contains the whole bounding box
C23_CropInsideImage ==
    LET b == img_geometry.box
        c == img_geometry.crop
    IN img_geometry # NoGeometry =>
          /\ 0 <= c.x1 /\ c.x1 < c.x2 /\ c.x2 <= b.W
          /\ 0 <= c.y1 /\ c.y1 < c.y2 /\ c.y2 <= b.H
          /\ c.x1 <= b.x /\ b.x + b.w <= c.x2
          /\ c.y1 <= b.y /\ b.y + b.h <= c.y2
          /\ c.x1 = Max(0, b.x - (b.w \div 5))
          /\ c.x2 = Min(b.W, b.x + b.w + (b.w \div 5))
          /\ c.y1 = Max(0, b.y - (b.h \div 5))
          /\ c.y2 = Min(b.H, b.y + b.h + (b.h \div 5))

\* a box whose padding is cut off at the left edge and kept whole on the
\* right, and whose padding in y is cut off at the bottom edge
C23_Witness ==
    LET b == img_geometry.box
        c == img_geometry.crop
    IN /\ img_geometry # NoGeometry
       /\ img_input.kind = "enhanced"
       /\ b.w >= 5 /\ b.h >= 5
       /\ b.x - (b.w \div 5) < 0 /\ c.x1 = 0
       /\ c.x2 = b.x + b.w + (b.w \div 5) /\ c.x2 < b.W
       /\ c.y2 = b.H /\ b.y + b.h + (b.h \div 5) > b.H

\* C24: every label the service returns has had its versioning suffix
\* removed, and two distinct vocabulary entries never become the same
\* returned label through that removal
C24_SuffixStrippedWithoutCollision ==
    (core_request # CoreNoRequest /\ core_response.success) =>
       /\ \A k \in DOMAIN core_response.top_predictions :
             ~HasUnderscore(core_response.top_predictions[k].class)
       /\ \A a, b \in Range(core_class_names) :
             (a # b /\ StripSuffix(a) = StripSuffix(b)) =>
                Cardinality({k \in DOMAIN core_response.top_predictions :
                               core_response.top_predictions[k].class
                                  = StripSuffix(a)}) <= 1

\* no label the core service returns carries a suffix
C24_CoreLabelsCarryNoSuffix ==
    (core_request # CoreNoRequest /\ core_response.success) =>
       \A k \in DOMAIN core_response.top_predictions :
          ~HasUnderscore(core_response.top_predictions[k].class)

\* C28: get_model_info reports "loaded" only when a model object is present
\* in the service, and "not_loaded" whenever construction ended without a
\* usable model
C28_LoadedMeansModelPresent ==
    core_info # CoreNoInfo =>
       /\ core_info.status = "loaded" => core_model
       /\ ~core_model => core_info.status = "not_loaded"

\* get_model_info reports the model_loaded flag
C28_StatusFollowsFlag ==
    core_info # CoreNoInfo =>
       (core_info.status = "loaded" <=> core_model_loaded)

\* C30: after construction of the ensemble service a name is a key of
\* models if and only if it is a key of metadata
C30_ModelsIffMetadata ==
    ens_constructed =>
       \A b \in Range(BackendNames) :
          b \in Range(ens_models) <=> ens_metadata[b].present

\* a backend with metadata always has its model
C30_MetadataImpliesModel ==
    ens_constructed =>
       \A b \in Range(BackendNames) :
          ens_metadata[b].present => b \in Range(ens_models)

\* C27: a 4-D array with batch size 1 given to predict is handed to the
\* model as it is, with no preprocessing step in between
C27_TensorPassedUnchanged ==
    (/\ core_request # CoreNoRequest
     /\ core_request.input.kind = "tensor"
     /\ core_model) =>
       core_model_input
          = [source |-> "input_data", tensor |-> core_request.input.tensor]

\* the model has answered a predict call on the second tensor
C27_Witness ==
    /\ core_request # CoreNoRequest
    /\ core_request.input.kind = "tensor"
    /\ core_request.input.tensor = MaxTensor
    /\ core_model
    /\ CoreModelAnswers(core_model, core_class_names, core_request.input,
                        core_request.model)
    /\ core_model_input.tensor = MaxTensor

\* C25: after use_ensemble.main has swapped the recognition service, every
\* request for the service made by the API routes obtains the ensemble
\* service instance
C25_RoutesGetEnsemble ==
    (patched /\ last_call.caller = "route") =>
       last_call.result = module_globals["_ensemble_instance"]

\* after the swap, a call looked up in app.core.recognition_service obtains
\* the ensemble service
C25_PatchedModuleGivesEnsemble ==
    (patched /\ last_call.global = "_instance") =>
       last_call.result = module_globals["_ensemble_instance"]

\* C26: _predict_fallback returns, for a given tensor and vocabulary, the
\* list that the tensor's seed determines, also when other threads run
\* _predict_fallback at the same time
C26_FallbackStable ==
    \A t \in Threads :
       fb_pc[t] = "done" => fb_result[t] = FallbackRanked(Seed(fb_tensor[t]))

=============================================================================
